---- MODULE Spec2Model ----
(***************************************************************************)
(* A model of facehugger: main() of src/facehugger/facehugger.py and the   *)
(* helpers it calls (load_manifest, build_hf_command, download_model,      *)
(* get_cache_listing, verify_cache), with the pydantic schema of           *)
(* src/facehugger/models.py.                                               *)
(*                                                                         *)
(* Text that the program only passes around (repo names, refs, glob        *)
(* patterns, rendered commands) is a TLA+ string.  Text whose characters   *)
(* the program inspects (cache listing lines, diff lines) is a sequence of *)
(* one-character strings.                                                  *)
(***************************************************************************)
EXTENDS Integers, Sequences, FiniteSets, TLC

VARIABLES
    pc,             \* position of main(): see the actions below
    args,           \* argparse namespace: [version, dry_run]
    file,           \* what is found at the manifest path
    models,         \* data.models once load_manifest has returned
    idx,            \* 1-based position of the for loop over models
    initial_cache,  \* main's initial_cache
    final_cache,    \* main's final_cache
    trace,          \* log records and external calls, in program order
    stdout,         \* what print() wrote
    exit_msg,       \* the message given to sys.exit, "" when none
    cmd_in,         \* arguments of a stand-alone build_hf_command call
    cmd_out         \* its result

vars == <<pc, args, file, models, idx, initial_cache, final_cache, trace,
          stdout, exit_msg, cmd_in, cmd_out>>

(***************************************************************************)
(* Bounds of the model.                                                    *)
(***************************************************************************)
MaxModels == 2      \* entries of a manifest
MaxLines == 2       \* lines of one `hf cache ls` output
MaxPatterns == 2    \* patterns of an include/exclude list

(***************************************************************************)
(* Python values: None, str, list; Missing is a key absent from a mapping. *)
(***************************************************************************)
None == [kind |-> "none"]

Missing == [kind |-> "missing"]

Str(s) == [kind |-> "str", s |-> s]

List(l) == [kind |-> "list", l |-> l]

\* Python truthiness of None, a str or a list.
Truthy(v) ==
    CASE v.kind = "none" -> FALSE
      [] v.kind = "missing" -> FALSE
      [] v.kind = "str" -> v.s # ""
      [] v.kind = "list" -> v.l # <<>>
      [] v.kind = "map" -> TRUE

SeqsUpTo(S, n) == UNION {[1..k -> S] : k \in 0..n}

(***************************************************************************)
(* " ".join(parts) and the extension of parts by a flag per pattern.       *)
(***************************************************************************)
RECURSIVE JoinSpace(_)
JoinSpace(parts) ==
    IF parts = <<>> THEN ""
    ELSE IF Len(parts) = 1 THEN parts[1]
    ELSE parts[1] \o " " \o JoinSpace(Tail(parts))

RECURSIVE ExtendEach(_, _, _)
ExtendEach(parts, flag, pats) ==
    IF pats = <<>> THEN parts
    ELSE ExtendEach(parts \o <<flag, pats[1]>>, flag, Tail(pats))

ExtendFlag(parts, flag, v) ==
    IF Truthy(v)
    THEN IF v.kind = "list"
         THEN ExtendEach(parts, flag, v.l)
         ELSE parts \o <<flag, v.s>>
    ELSE parts

\* build_hf_command rendering the exclude patterns before the include patterns
build_hf_command_ExcludeFirst(repo, ref, include, exclude) ==
    LET parts0 == <<"hf", "download", repo>>
        parts1 == IF Truthy(ref)
                  THEN [parts0 EXCEPT ![Len(parts0)] = repo \o "@" \o ref.s]
                  ELSE parts0
        parts2 == ExtendFlag(parts1, "--exclude", exclude)
        parts3 == ExtendFlag(parts2, "--include", include)
    IN  JoinSpace(parts3)

build_hf_command(repo, ref, include, exclude) ==
    LET parts0 == <<"hf", "download", repo>>
        parts1 == IF Truthy(ref)
                  THEN [parts0 EXCEPT ![Len(parts0)] = repo \o "@" \o ref.s]
                  ELSE parts0
        parts2 == ExtendFlag(parts1, "--include", include)
        parts3 == ExtendFlag(parts2, "--exclude", exclude)
    IN  JoinSpace(parts3)

(***************************************************************************)
(* The schema of models.py, applied by FacehuggerManifest.model_validate.  *)
(* A raw document is what yaml.safe_load returns: None, a str, a list, or  *)
(* a mapping [kind |-> "map", ...] whose absent keys are Missing.          *)
(***************************************************************************)
IsStr(v) == v.kind = "str"

\* ModelConfig: repo: str; ref: Optional[str] = "main";
\* include, exclude: Optional[Union[str, List[str]]] = None
ModelConfigValid(e) ==
    /\ e.kind = "map"
    /\ IsStr(e.repo)
    /\ e.ref.kind \in {"missing", "none", "str"}
    /\ e.include.kind \in {"missing", "none", "str", "list"}
    /\ e.exclude.kind \in {"missing", "none", "str", "list"}

\* a ModelConfig whose ref has no default
ModelConfig_NoDefault(e) ==
    [repo |-> e.repo.s,
     ref |-> IF e.ref.kind = "missing" THEN None ELSE e.ref,
     include |-> IF e.include.kind = "missing" THEN None ELSE e.include,
     exclude |-> IF e.exclude.kind = "missing" THEN None ELSE e.exclude]

ModelConfig(e) ==
    [repo |-> e.repo.s,
     ref |-> IF e.ref.kind = "missing" THEN Str("main") ELSE e.ref,
     include |-> IF e.include.kind = "missing" THEN None ELSE e.include,
     exclude |-> IF e.exclude.kind = "missing" THEN None ELSE e.exclude]

\* a schema that also demands at least one entry
FacehuggerManifestValid_NonEmpty(data) ==
    /\ data.kind = "map"
    /\ data.models.kind = "list"
    /\ data.models.l # <<>>
    /\ \A i \in 1..Len(data.models.l) : ModelConfigValid(data.models.l[i])

\* FacehuggerManifest: models: List[ModelConfig]
FacehuggerManifestValid(data) ==
    /\ data.kind = "map"
    /\ data.models.kind = "list"
    /\ \A i \in 1..Len(data.models.l) : ModelConfigValid(data.models.l[i])

FacehuggerManifest(data) ==
    [i \in 1..Len(data.models.l) |-> ModelConfig(data.models.l[i])]

EmptyMap == [kind |-> "map", models |-> Missing]

\* `yaml.safe_load(f) or {}`
OrEmptyMap(y) ==
    IF y.kind = "map"
    THEN IF y.models.kind = "missing" THEN EmptyMap ELSE y
    ELSE IF Truthy(y) THEN y ELSE EmptyMap

\* load_manifest: the Manifest, or the sys.exit message, or (raised) an
\* exception that is no yaml.YAMLError and that nothing catches: open() or the
\* read inside yaml.safe_load failing on a file that is not UTF-8 text.
load_manifest(f) ==
    IF f.kind = "absent"
    THEN [ok |-> FALSE, raised |-> FALSE, msg |-> "Manifest file not found",
          models |-> <<>>]
    ELSE IF f.kind = "undecodable"
    THEN [ok |-> FALSE, raised |-> TRUE, msg |-> "", models |-> <<>>]
    ELSE IF f.kind = "malformed"
    THEN [ok |-> FALSE, raised |-> FALSE, msg |-> "Failed to parse manifest file",
          models |-> <<>>]
    ELSE LET data == OrEmptyMap(f.data)
         IN  IF FacehuggerManifestValid(data)
             THEN [ok |-> TRUE, raised |-> FALSE, msg |-> "",
                   models |-> FacehuggerManifest(data)]
             ELSE [ok |-> FALSE, raised |-> FALSE, msg |-> "failed validation",
                   models |-> <<>>]

(***************************************************************************)
(* Character-level text: a sequence of one-character strings.              *)
(***************************************************************************)
RECURSIVE Flatten(_)
\* "".join(lines)
Flatten(lines) ==
    IF lines = <<>> THEN <<>> ELSE lines[1] \o Flatten(Tail(lines))

RECURSIVE JoinTerminated(_)
\* each line followed by its newline, as a subprocess writes them
JoinTerminated(lines) ==
    IF lines = <<>> THEN <<>>
    ELSE lines[1] \o <<"\n">> \o JoinTerminated(Tail(lines))

RECURSIVE SplitFrom(_, _)
SplitFrom(text, cur) ==
    IF text = <<>>
    THEN IF cur = <<>> THEN <<>> ELSE <<cur>>
    ELSE IF text[1] = "\n"
         THEN <<cur>> \o SplitFrom(Tail(text), <<>>)
         ELSE SplitFrom(Tail(text), Append(cur, text[1]))

\* str.splitlines(): no trailing empty line, "" gives []
splitlines(text) == SplitFrom(text, <<>>)

\* str.startswith(prefix)
startswith(line, prefix) ==
    /\ Len(line) >= Len(prefix)
    /\ SubSeq(line, 1, Len(prefix)) = prefix

Digit == <<"0", "1", "2", "3", "4", "5", "6", "7", "8", "9">>

RECURSIVE Dec(_)
\* str(n) for n >= 0
Dec(n) == IF n < 10 THEN <<Digit[n + 1]>> ELSE Dec(n \div 10) \o <<Digit[(n % 10) + 1]>>

SetMax(S) == CHOOSE x \in S : \A y \in S : y <= x

SetMin(S) == CHOOSE x \in S : \A y \in S : x <= y

(***************************************************************************)
(* difflib.unified_diff(initial_cache, final_cache, fromfile="initial",    *)
(* tofile="final", lineterm=""), as main() calls it.  Indices are Python's *)
(* (0-based, half-open); a[i + 1] is Python's a[i].  Listings are far      *)
(* shorter than the 200 lines at which difflib's autojunk heuristic starts.*)
(***************************************************************************)
ContextLines == 3   \* unified_diff's default n

RECURSIVE MatchLen(_, _, _, _, _, _)
MatchLen(a, b, i, j, ahi, bhi) ==
    IF i < ahi /\ j < bhi /\ a[i + 1] = b[j + 1]
    THEN 1 + MatchLen(a, b, i + 1, j + 1, ahi, bhi)
    ELSE 0

\* SequenceMatcher.find_longest_match: the longest block, earliest in a, then in b
find_longest_match(a, b, alo, ahi, blo, bhi) ==
    LET cands == (alo..(ahi - 1)) \X (blo..(bhi - 1))
        len(c) == MatchLen(a, b, c[1], c[2], ahi, bhi)
        best == IF cands = {} THEN 0 ELSE SetMax({len(c) : c \in cands})
    IN  IF best = 0 THEN <<alo, blo, 0>>
        ELSE LET top == {c \in cands : len(c) = best}
                 i == SetMin({c[1] : c \in top})
                 j == SetMin({c[2] : c \in {d \in top : d[1] = i}})
             IN  <<i, j, best>>

RECURSIVE matching_blocks(_, _, _, _, _, _)
\* SequenceMatcher.get_matching_blocks, without the closing sentinel
matching_blocks(a, b, alo, ahi, blo, bhi) ==
    LET m == find_longest_match(a, b, alo, ahi, blo, bhi)
        i == m[1]
        j == m[2]
        k == m[3]
    IN  IF k = 0 THEN <<>>
        ELSE (IF alo < i /\ blo < j
              THEN matching_blocks(a, b, alo, i, blo, j) ELSE <<>>)
             \o <<m>>
             \o (IF i + k < ahi /\ j + k < bhi
                 THEN matching_blocks(a, b, i + k, ahi, j + k, bhi) ELSE <<>>)

Opcode(tag, i1, i2, j1, j2) == [tag |-> tag, i1 |-> i1, i2 |-> i2, j1 |-> j1, j2 |-> j2]

RECURSIVE OpcodesFrom(_, _, _)
OpcodesFrom(blocks, i, j) ==
    IF blocks = <<>> THEN <<>>
    ELSE LET ai == blocks[1][1]
             bj == blocks[1][2]
             size == blocks[1][3]
             tag == IF i < ai /\ j < bj THEN "replace"
                    ELSE IF i < ai THEN "delete"
                    ELSE IF j < bj THEN "insert"
                    ELSE ""
         IN  (IF tag # "" THEN <<Opcode(tag, i, ai, j, bj)>> ELSE <<>>)
             \o (IF size > 0
                 THEN <<Opcode("equal", ai, ai + size, bj, bj + size)>>
                 ELSE <<>>)
             \o OpcodesFrom(Tail(blocks), ai + size, bj + size)

\* SequenceMatcher.get_opcodes
get_opcodes(a, b) ==
    OpcodesFrom(matching_blocks(a, b, 0, Len(a), 0, Len(b))
                    \o <<(<<Len(a), Len(b), 0>>)>>, 0, 0)

IntMax(x, y) == IF x >= y THEN x ELSE y

IntMin(x, y) == IF x <= y THEN x ELSE y

\* the last n lines of an equal block / its first n lines
KeepTail(c, n) ==
    Opcode(c.tag, IntMax(c.i1, c.i2 - n), c.i2, IntMax(c.j1, c.j2 - n), c.j2)

KeepHead(c, n) ==
    Opcode(c.tag, c.i1, IntMin(c.i2, c.i1 + n), c.j1, IntMin(c.j2, c.j1 + n))

OrOneEqual(codes) ==
    IF codes = <<>> THEN <<Opcode("equal", 0, 1, 0, 1)>> ELSE codes

TrimFirst(codes, n) ==
    IF codes[1].tag = "equal"
    THEN [codes EXCEPT ![1] = KeepTail(codes[1], n)]
    ELSE codes

TrimLast(codes, n) ==
    IF codes[Len(codes)].tag = "equal"
    THEN [codes EXCEPT ![Len(codes)] = KeepHead(codes[Len(codes)], n)]
    ELSE codes

RECURSIVE GroupFold(_, _, _, _)
GroupFold(codes, group, groups, n) ==
    IF codes = <<>>
    THEN IF group # <<>> /\ ~(Len(group) = 1 /\ group[1].tag = "equal")
         THEN Append(groups, group)
         ELSE groups
    ELSE IF codes[1].tag = "equal" /\ codes[1].i2 - codes[1].i1 > n + n
         THEN GroupFold(Tail(codes), <<KeepTail(codes[1], n)>>,
                        Append(groups, Append(group, KeepHead(codes[1], n))), n)
         ELSE GroupFold(Tail(codes), Append(group, codes[1]), groups, n)

\* SequenceMatcher.get_grouped_opcodes(n)
get_grouped_opcodes(a, b, n) ==
    GroupFold(TrimLast(TrimFirst(OrOneEqual(get_opcodes(a, b)), n), n), <<>>, <<>>, n)

\* difflib._format_range_unified
format_range_unified(start, stop) ==
    LET beginning == start + 1
        length == stop - start
    IN  IF length = 1 THEN Dec(beginning)
        ELSE Dec(IF length = 0 THEN beginning - 1 ELSE beginning)
                 \o <<",">> \o Dec(length)

PrefixEach(ch, lines) == [i \in 1..Len(lines) |-> <<ch>> \o lines[i]]

Slice(s, lo, hi) == SubSeq(s, lo + 1, hi)

RECURSIVE GroupLines(_, _, _)
GroupLines(a, b, group) ==
    IF group = <<>> THEN <<>>
    ELSE LET c == group[1]
         IN  (IF c.tag = "equal" THEN PrefixEach(" ", Slice(a, c.i1, c.i2))
              ELSE (IF c.tag \in {"replace", "delete"}
                    THEN PrefixEach("-", Slice(a, c.i1, c.i2)) ELSE <<>>)
                   \o (IF c.tag \in {"replace", "insert"}
                       THEN PrefixEach("+", Slice(b, c.j1, c.j2)) ELSE <<>>))
             \o GroupLines(a, b, Tail(group))

HunkHeader(group) ==
    <<"@", "@", " ", "-">>
        \o format_range_unified(group[1].i1, group[Len(group)].i2)
        \o <<" ", "+">>
        \o format_range_unified(group[1].j1, group[Len(group)].j2)
        \o <<" ", "@", "@">>

RECURSIVE HunkLines(_, _, _)
HunkLines(a, b, groups) ==
    IF groups = <<>> THEN <<>>
    ELSE <<HunkHeader(groups[1])>> \o GroupLines(a, b, groups[1])
             \o HunkLines(a, b, Tail(groups))

FromFileHeader == <<"-", "-", "-", " ", "i", "n", "i", "t", "i", "a", "l">>

ToFileHeader == <<"+", "+", "+", " ", "f", "i", "n", "a", "l">>

\* the lines unified_diff yields; lineterm="" so none carries a newline
unified_diff(a, b) ==
    LET groups == get_grouped_opcodes(a, b, ContextLines)
    IN  IF groups = <<>> THEN <<>>
        ELSE <<FromFileHeader, ToFileHeader>> \o HunkLines(a, b, groups)

(***************************************************************************)
(* Records of the run: logging calls, and calls of external operations     *)
(* with what the operation did (result).  Every data is a record.          *)
(***************************************************************************)
NoData == [none |-> TRUE]

Log(what, data) == [ev |-> "log", what |-> what, data |-> data]

Call(what, data, result) == [ev |-> "call", what |-> what, data |-> data, result |-> result]

LogEach(what, lines) == [i \in 1..Len(lines) |-> Log(what, [line |-> lines[i]])]

\* get_cache_listing without the `except CalledProcessError` clause
get_cache_listing_NoHandler(o) ==
    IF o.kind = "ok"
    THEN [raised |-> FALSE, lines |-> splitlines(o.out),
          events |-> <<Call("hf_cache_ls", NoData, o.kind)>>]
    ELSE [raised |-> TRUE, lines |-> <<>>,
          events |-> <<Call("hf_cache_ls", NoData, o.kind)>>]

(***************************************************************************)
(* get_cache_listing under one outcome of `hf cache ls`: exit 0 with its   *)
(* stdout, a non-zero exit (CalledProcessError, caught), or a failure to   *)
(* start the process (OSError such as FileNotFoundError, not caught).      *)
(***************************************************************************)
get_cache_listing(o) ==
    IF o.kind = "ok"
    THEN [raised |-> FALSE, lines |-> splitlines(o.out),
          events |-> <<Call("hf_cache_ls", NoData, o.kind)>>]
    ELSE IF o.kind = "nonzero"
    THEN [raised |-> FALSE, lines |-> <<>>,
          events |-> <<Call("hf_cache_ls", NoData, o.kind),
                       Log("cache_ls_failed", NoData)>>]
    ELSE [raised |-> TRUE, lines |-> <<>>,
          events |-> <<Call("hf_cache_ls", NoData, o.kind)>>]

\* download_model passing exclude as allow_patterns and include as ignore_patterns
download_model_Swapped(repo, ref, include, exclude, o) ==
    [raised |-> o # "ok",
     events |-> <<Log("downloading", [repo |-> repo, ref |-> ref]),
                  Call("snapshot_download",
                       [repo_id |-> repo, revision |-> ref,
                        allow_patterns |-> exclude, ignore_patterns |-> include], o)>>,
     printed |-> IF o = "ok" THEN <<"">> ELSE <<>>]

(***************************************************************************)
(* download_model under one outcome of snapshot_download: it returns, or   *)
(* it raises and nothing catches the exception.                            *)
(***************************************************************************)
download_model(repo, ref, include, exclude, o) ==
    [raised |-> o # "ok",
     events |-> <<Log("downloading", [repo |-> repo, ref |-> ref]),
                  Call("snapshot_download",
                       [repo_id |-> repo, revision |-> ref,
                        allow_patterns |-> include, ignore_patterns |-> exclude], o)>>,
     printed |-> IF o = "ok" THEN <<"">> ELSE <<>>]

\* verify_cache without the `except RevisionNotFoundError` clause
verify_cache_NoRevisionHandler(repo, repo_type, ref, o) ==
    LET head == <<Log("verifying", [repo |-> repo, ref |-> ref]),
                  Call("verify_repo_checksums",
                       [repo_id |-> repo, repo_type |-> repo_type, revision |-> ref], o)>>
    IN  CASE o = "repo_not_found" ->
               [raised |-> FALSE,
                events |-> head \o <<Log("repo_not_found", [repo |-> repo])>>]
          [] o = "mismatch" ->
               [raised |-> FALSE,
                events |-> head \o <<Log("verify_failed", [repo |-> repo]),
                                     Log("mismatch", [repo |-> repo])>>]
          [] o = "ok" ->
               [raised |-> FALSE,
                events |-> head \o <<Log("verified", [repo |-> repo])>>]
          [] OTHER ->
               [raised |-> TRUE, events |-> head]

(***************************************************************************)
(* verify_cache under one outcome of verify_repo_checksums.                *)
(***************************************************************************)
verify_cache(repo, repo_type, ref, o) ==
    LET head == <<Log("verifying", [repo |-> repo, ref |-> ref]),
                  Call("verify_repo_checksums",
                       [repo_id |-> repo, repo_type |-> repo_type, revision |-> ref], o)>>
    IN  CASE o = "repo_not_found" ->
               [raised |-> FALSE,
                events |-> head \o <<Log("repo_not_found", [repo |-> repo])>>]
          [] o = "revision_not_found" ->
               [raised |-> FALSE,
                events |-> head \o <<Log("revision_not_found", [repo |-> repo, ref |-> ref])>>]
          [] o = "mismatch" ->
               [raised |-> FALSE,
                events |-> head \o <<Log("verify_failed", [repo |-> repo]),
                                     Log("mismatch", [repo |-> repo])>>]
          [] o = "ok" ->
               [raised |-> FALSE,
                events |-> head \o <<Log("verified", [repo |-> repo])>>]
          [] OTHER ->
               [raised |-> TRUE, events |-> head]

(***************************************************************************)
(* The diff section of main(): lines 274-287.                              *)
(***************************************************************************)
Plus == <<"+">>

Minus == <<"-">>

Colour(line) ==
    IF startswith(line, Plus) /\ ~startswith(line, <<"+", "+", "+">>) THEN "green"
    ELSE IF startswith(line, Minus) /\ ~startswith(line, <<"-", "-", "-">>) THEN "red"
    ELSE "plain"

DiffText(initial, final) == Flatten(unified_diff(initial, final))

\* lines 279-287 without the `if diff:` of line 279
RenderDiff_Always(initial, final) ==
    LET diff == DiffText(initial, final)
        lines == splitlines(diff)
    IN  <<Log("diff_header", NoData)>>
            \o [i \in 1..Len(lines) |->
                   Log("diff_line", [colour |-> Colour(lines[i]), line |-> lines[i]])]

RenderDiff(initial, final) ==
    LET diff == DiffText(initial, final)
        lines == splitlines(diff)
    IN  IF diff # <<>>
        THEN <<Log("diff_header", NoData)>>
                 \o [i \in 1..Len(lines) |->
                        Log("diff_line", [colour |-> Colour(lines[i]), line |-> lines[i]])]
        ELSE <<>>

(***************************************************************************)
(* Inputs and outcomes the environment can produce.                        *)
(***************************************************************************)
RawEntry(repo, ref, include, exclude) ==
    [kind |-> "map", repo |-> repo, ref |-> ref, include |-> include, exclude |-> exclude]

RawEntries ==
    {RawEntry(Missing, Missing, Missing, Missing),
     RawEntry(Str(""), Missing, Missing, Missing),
     RawEntry(Str("o/a"), Missing, Missing, Missing),
     RawEntry(Str("o/b"), Str("v1"), Str("*.gguf"), List(<<"*.ckpt">>))}

RawMap(m) == [kind |-> "map", models |-> m]

Documents ==
    {None, Str("x"), List(<<>>), RawMap(Missing), RawMap(None), RawMap(Str("x"))}
        \cup {RawMap(List(l)) : l \in SeqsUpTo(RawEntries, MaxModels)}

Files ==
    {[kind |-> "absent"], [kind |-> "undecodable"], [kind |-> "malformed"]}
        \cup {[kind |-> "yaml", data |-> d] : d \in Documents}

CacheLines == {<<"a">>, <<"b">>}

ListingOutcomes ==
    {[kind |-> "ok", out |-> JoinTerminated(l)] : l \in SeqsUpTo(CacheLines, MaxLines)}
        \cup {[kind |-> "nonzero", out |-> <<>>], [kind |-> "oserror", out |-> <<>>]}

DownloadOutcomes == {"ok", "raise"}

VerifyOutcomes == {"ok", "repo_not_found", "revision_not_found", "mismatch", "raise"}

InstalledVersion == "1.0.0"

NoCmd == [repo |-> "", ref |-> None, include |-> None, exclude |-> None]

(***************************************************************************)
(* main()                                                                  *)
(***************************************************************************)
Init ==
    /\ pc = "start"
    /\ args \in [version : BOOLEAN, dry_run : BOOLEAN]
    /\ file \in Files
    /\ models = <<>>
    /\ idx = 0
    /\ initial_cache = <<>>
    /\ final_cache = <<>>
    /\ trace = <<>>
    /\ stdout = <<>>
    /\ exit_msg = ""
    /\ cmd_in = NoCmd
    /\ cmd_out = ""

\* where the for loop goes after the entry at position i
AfterEntry(i) == IF i + 1 > Len(models) THEN "final" ELSE "entry"

\* lines 222-228
Version ==
    /\ pc = "start"
    /\ args.version
    /\ \E found \in BOOLEAN :
          stdout' = Append(stdout, IF found THEN InstalledVersion ELSE "0.0.0")
    /\ pc' = "done"
    /\ UNCHANGED <<args, file, models, idx, initial_cache, final_cache, trace,
                   exit_msg, cmd_in, cmd_out>>

\* LoadManifest running before --version is looked at
LoadManifest_BeforeVersion ==
    /\ pc = "start"
    /\ LET r == load_manifest(file)
       IN  IF r.ok
           THEN /\ models' = r.models
                /\ pc' = "loaded"
                /\ UNCHANGED exit_msg
           ELSE /\ pc' = (IF r.raised THEN "load_raised" ELSE "exited")
                /\ exit_msg' = r.msg
                /\ UNCHANGED models
    /\ UNCHANGED <<args, file, idx, initial_cache, final_cache, trace, stdout,
                   cmd_in, cmd_out>>

\* lines 233-237
LoadManifest ==
    /\ pc = "start"
    /\ ~args.version
    /\ LET r == load_manifest(file)
       IN  IF r.ok
           THEN /\ models' = r.models
                /\ pc' = "loaded"
                /\ UNCHANGED exit_msg
           ELSE /\ pc' = (IF r.raised THEN "load_raised" ELSE "exited")
                /\ exit_msg' = r.msg
                /\ UNCHANGED models
    /\ UNCHANGED <<args, file, idx, initial_cache, final_cache, trace, stdout,
                   cmd_in, cmd_out>>

\* NoModels returning from main() right after the notice
NoModels_Returns ==
    /\ pc = "loaded"
    /\ models = <<>>
    /\ trace' = Append(trace, Log("no_models", NoData))
    /\ pc' = "done"
    /\ UNCHANGED <<args, file, models, idx, initial_cache, final_cache, stdout,
                   exit_msg, cmd_in, cmd_out>>

\* lines 239-240
NoModels ==
    /\ pc = "loaded"
    /\ models = <<>>
    /\ trace' = Append(trace, Log("no_models", NoData))
    /\ pc' = "final"
    /\ UNCHANGED <<args, file, models, idx, initial_cache, final_cache, stdout,
                   exit_msg, cmd_in, cmd_out>>

\* lines 241-246
InitialListing ==
    /\ pc = "loaded"
    /\ models # <<>>
    /\ \E o \in ListingOutcomes :
          LET r == get_cache_listing(o)
          IN  IF r.raised
              THEN /\ trace' = trace \o r.events
                   /\ pc' = "crashed"
                   /\ UNCHANGED <<initial_cache, idx>>
              ELSE /\ initial_cache' = r.lines
                   /\ trace' = trace \o r.events \o <<Log("initial_header", NoData)>>
                                   \o LogEach("cache_line", r.lines)
                   /\ idx' = 1
                   /\ pc' = "entry"
    /\ UNCHANGED <<args, file, models, final_cache, stdout, exit_msg, cmd_in, cmd_out>>

\* lines 248-252
SkipEntry ==
    /\ pc = "entry"
    /\ models[idx].repo = ""
    /\ trace' = Append(trace, Log("skip_entry", [index |-> idx]))
    /\ idx' = idx + 1
    /\ pc' = AfterEntry(idx)
    /\ UNCHANGED <<args, file, models, initial_cache, final_cache, stdout,
                   exit_msg, cmd_in, cmd_out>>

\* RenderCommand going on to the download whatever --dry-run says
RenderCommand_IgnoresDryRun ==
    /\ pc = "entry"
    /\ models[idx].repo # ""
    /\ LET e == models[idx]
       IN  trace' = Append(trace,
                      Log("command",
                          [text |-> build_hf_command(e.repo, e.ref, e.include, e.exclude)]))
    /\ pc' = "download"
    /\ UNCHANGED <<args, file, models, idx, initial_cache, final_cache, stdout,
                   exit_msg, cmd_in, cmd_out>>

\* lines 248-263
RenderCommand ==
    /\ pc = "entry"
    /\ models[idx].repo # ""
    /\ LET e == models[idx]
       IN  trace' = Append(trace,
                      Log("command",
                          [text |-> build_hf_command(e.repo, e.ref, e.include, e.exclude)]))
    /\ IF args.dry_run
       THEN /\ idx' = idx + 1
            /\ pc' = AfterEntry(idx)
       ELSE /\ pc' = "download"
            /\ UNCHANGED idx
    /\ UNCHANGED <<args, file, models, initial_cache, final_cache, stdout,
                   exit_msg, cmd_in, cmd_out>>

\* Download with the exception of snapshot_download swallowed
Download_Swallows ==
    /\ pc = "download"
    /\ \E o \in DownloadOutcomes :
          LET e == models[idx]
              r == download_model(e.repo, e.ref, e.include, e.exclude, o)
          IN  /\ trace' = trace \o r.events
              /\ stdout' = stdout \o r.printed
              /\ pc' = "verify"
    /\ UNCHANGED <<args, file, models, idx, initial_cache, final_cache,
                   exit_msg, cmd_in, cmd_out>>

\* line 264
Download ==
    /\ pc = "download"
    /\ \E o \in DownloadOutcomes :
          LET e == models[idx]
              r == download_model(e.repo, e.ref, e.include, e.exclude, o)
          IN  /\ trace' = trace \o r.events
              /\ stdout' = stdout \o r.printed
              /\ pc' = IF r.raised THEN "crashed" ELSE "verify"
    /\ UNCHANGED <<args, file, models, idx, initial_cache, final_cache,
                   exit_msg, cmd_in, cmd_out>>

\* line 266
Verify ==
    /\ pc = "verify"
    /\ \E o \in VerifyOutcomes :
          LET e == models[idx]
              r == verify_cache(e.repo, None, e.ref, o)
          IN  /\ trace' = trace \o r.events
              /\ IF r.raised
                 THEN /\ pc' = "crashed"
                      /\ UNCHANGED idx
                 ELSE /\ idx' = idx + 1
                      /\ pc' = AfterEntry(idx)
    /\ UNCHANGED <<args, file, models, initial_cache, final_cache, stdout,
                   exit_msg, cmd_in, cmd_out>>

\* lines 268-272
FinalListing ==
    /\ pc = "final"
    /\ \E o \in ListingOutcomes :
          LET r == get_cache_listing(o)
          IN  IF r.raised
              THEN /\ trace' = trace \o r.events
                   /\ pc' = "crashed"
                   /\ UNCHANGED final_cache
              ELSE /\ final_cache' = r.lines
                   /\ trace' = trace \o r.events \o <<Log("final_header", NoData)>>
                                   \o LogEach("cache_line", r.lines)
                   /\ pc' = "diff"
    /\ UNCHANGED <<args, file, models, idx, initial_cache, stdout, exit_msg,
                   cmd_in, cmd_out>>

\* lines 273-287
Diff ==
    /\ pc = "diff"
    /\ trace' = trace \o RenderDiff(initial_cache, final_cache)
    /\ pc' = "done"
    /\ UNCHANGED <<args, file, models, idx, initial_cache, final_cache, stdout,
                   exit_msg, cmd_in, cmd_out>>

Next ==
    \/ Version
    \/ LoadManifest
    \/ NoModels
    \/ InitialListing
    \/ SkipEntry
    \/ RenderCommand
    \/ Download
    \/ Verify
    \/ FinalListing
    \/ Diff

Spec == Init /\ [][Next]_vars

(***************************************************************************)
(* load_manifest alone, over manifest files whose entries vary in every    *)
(* field: repo absent or given, ref absent, null or given, include absent, *)
(* a string or a list, exclude absent or a list.                           *)
(***************************************************************************)
LoadEntries ==
    {RawEntry(repo, ref, include, exclude) :
        repo \in {Missing, Str("o/a"), Str("o/b")},
        ref \in {Missing, None, Str("v1")},
        include \in {Missing, Str("*.gguf"), List(<<"*.gguf", "*.bin">>)},
        exclude \in {Missing, List(<<"*.ckpt">>)}}

LoadFiles ==
    Files \cup {[kind |-> "yaml", data |-> RawMap(List(l))] :
                   l \in SeqsUpTo(LoadEntries, MaxModels)}

InitLoad ==
    /\ pc = "start"
    /\ args = [version |-> FALSE, dry_run |-> FALSE]
    /\ file \in LoadFiles
    /\ models = <<>>
    /\ idx = 0
    /\ initial_cache = <<>>
    /\ final_cache = <<>>
    /\ trace = <<>>
    /\ stdout = <<>>
    /\ exit_msg = ""
    /\ cmd_in = NoCmd
    /\ cmd_out = ""

NextLoad == LoadManifest

SpecLoad == InitLoad /\ [][NextLoad]_vars

\* the process exit status: 0 from a return of main(), 1 from sys.exit(message)
\* or an uncaught exception; -1 while the run is going
ExitCode ==
    IF pc = "done" THEN 0
    ELSE IF pc \in {"exited", "load_raised", "crashed"} THEN 1
    ELSE 0 - 1

(***************************************************************************)
(* build_hf_command on its own, over every shape of its arguments.         *)
(***************************************************************************)
Texts == {"", "*.gguf", "*.bin"}

OptPatterns ==
    {None} \cup {Str(t) : t \in Texts} \cup {List(l) : l \in SeqsUpTo(Texts, MaxPatterns)}

CmdInputs ==
    [repo : {"", "o/m"}, ref : {None, Str(""), Str("main")},
     include : OptPatterns, exclude : OptPatterns]

InitCmd ==
    /\ pc = "cmd_call"
    /\ cmd_in \in CmdInputs
    /\ cmd_out = ""
    /\ args = [version |-> FALSE, dry_run |-> FALSE]
    /\ file = [kind |-> "absent"]
    /\ models = <<>>
    /\ idx = 0
    /\ initial_cache = <<>>
    /\ final_cache = <<>>
    /\ trace = <<>>
    /\ stdout = <<>>
    /\ exit_msg = ""

BuildCommand ==
    /\ pc = "cmd_call"
    /\ cmd_out' = build_hf_command(cmd_in.repo, cmd_in.ref, cmd_in.include, cmd_in.exclude)
    /\ pc' = "cmd_done"
    /\ UNCHANGED <<args, file, models, idx, initial_cache, final_cache, trace,
                   stdout, exit_msg, cmd_in>>

NextCmd == BuildCommand

SpecCmd == InitCmd /\ [][NextCmd]_vars
(***************************************************************************)
(* Views of the run that the properties below use.                         *)
(***************************************************************************)
CallsOf(what) == SelectSeq(trace, LAMBDA e : e.ev = "call" /\ e.what = what)

LogsOf(what) == SelectSeq(trace, LAMBDA e : e.ev = "log" /\ e.what = what)

\* main() got a manifest back from load_manifest and is past the `if not models`
PastModelsCheck == ~args.version /\ pc \in {"entry", "download", "verify", "final", "diff", "done", "crashed"}

ZeroEntryRun == PastModelsCheck /\ models = <<>>

\* the for loop is over
LoopDone == ~args.version /\ pc \in {"final", "diff", "done"}

AllSucceeded ==
    \A i \in 1..Len(trace) : trace[i].ev = "call" => trace[i].result = "ok"

\* every record of the diff section comes after every external call
DiffAfterCalls ==
    \A i, j \in 1..Len(trace) :
        (trace[i].what \in {"diff_header", "diff_line"} /\ trace[j].ev = "call") => j < i

CommandLog(e) ==
    Log("command", [text |-> build_hf_command(e.repo, e.ref, e.include, e.exclude)])

DownloadCall(e) ==
    Call("snapshot_download",
         [repo_id |-> e.repo, revision |-> e.ref,
          allow_patterns |-> e.include, ignore_patterns |-> e.exclude], "ok")

VerifyCall(e) ==
    Call("verify_repo_checksums",
         [repo_id |-> e.repo, repo_type |-> None, revision |-> e.ref], "ok")

ListingCall == Call("hf_cache_ls", NoData, "ok")

\* the calls and command lines of the run, in order
Operations ==
    SelectSeq(trace, LAMBDA e : e.ev = "call" \/ e.what = "command")

\* the same with the skip warnings
OperationsAndSkips ==
    SelectSeq(trace, LAMBDA e : e.ev = "call" \/ e.what \in {"command", "skip_entry"})

RECURSIVE EveryEntryOps(_)
EveryEntryOps(ms) ==
    IF ms = <<>> THEN <<>>
    ELSE <<CommandLog(ms[1]), DownloadCall(ms[1]), VerifyCall(ms[1])>>
             \o EveryEntryOps(Tail(ms))

RECURSIVE NamedEntryOps(_, _)
NamedEntryOps(ms, i) ==
    IF i > Len(ms) THEN <<>>
    ELSE (IF ms[i].repo = ""
          THEN <<Log("skip_entry", [index |-> i])>>
          ELSE <<CommandLog(ms[i]), DownloadCall(ms[i]), VerifyCall(ms[i])>>)
             \o NamedEntryOps(ms, i + 1)

\* C1 as stated: with zero entries the notice is logged, `hf cache ls` is never
\* run and no diff is printed.
C1_Original ==
    ZeroEntryRun =>
        /\ LogsOf("no_models") # <<>>
        /\ CallsOf("hf_cache_ls") = <<>>
        /\ LogsOf("diff_header") = <<>>

\* C1 amended: with zero entries the notice is logged and only the before
\* capture is skipped (initial_cache stays empty); the final listing still runs
\* exactly once, and the diff is printed exactly when that listing is non-empty.
C1_ZeroEntries ==
    ZeroEntryRun =>
        /\ trace[1] = Log("no_models", NoData)
        /\ LogsOf("initial_header") = <<>>
        /\ initial_cache = <<>>
        /\ Len(CallsOf("hf_cache_ls")) = (IF pc = "final" THEN 0 ELSE 1)
        /\ pc = "done" => ((LogsOf("diff_header") # <<>>) <=> (final_cache # <<>>))

C1_Witness == ZeroEntryRun /\ pc = "done" /\ final_cache # <<>>

\* C2 as stated: a run without --dry-run over a non-empty manifest in which
\* every external operation succeeds performs: listing, then command, download
\* and verify for every entry in manifest order, then listing, then the diff.
C2_Original ==
    (pc = "done" /\ ~args.version /\ ~args.dry_run /\ models # <<>> /\ AllSucceeded) =>
        /\ Operations = <<ListingCall>> \o EveryEntryOps(models) \o <<ListingCall>>
        /\ DiffAfterCalls

\* C2 amended: the same order, where an entry whose repo is the empty string
\* is skipped with a warning (no command, no download, no verify) and every
\* other entry has its command, download and verify exactly once.
C2_Order ==
    (pc = "done" /\ ~args.version /\ ~args.dry_run /\ models # <<>> /\ AllSucceeded) =>
        /\ OperationsAndSkips
               = <<ListingCall>> \o NamedEntryOps(models, 1) \o <<ListingCall>>
        /\ DiffAfterCalls

C2_Witness ==
    /\ pc = "done" /\ ~args.version /\ ~args.dry_run /\ AllSucceeded
    /\ Len(models) >= 2
    /\ models[1].repo # "" /\ models[2].repo # "" /\ models[1] # models[2]
    /\ LogsOf("diff_header") # <<>>

RECURSIVE EveryCommand(_)
EveryCommand(ms) ==
    IF ms = <<>> THEN <<>> ELSE <<CommandLog(ms[1])>> \o EveryCommand(Tail(ms))

NamedEntries(ms) == SelectSeq(ms, LAMBDA e : e.repo # "")

\* C3 as stated: with --dry-run there is no download and no verify, and one
\* command line per manifest entry, in manifest order.
C3_Original ==
    (args.dry_run /\ ~args.version) =>
        /\ CallsOf("snapshot_download") = <<>>
        /\ CallsOf("verify_repo_checksums") = <<>>
        /\ LoopDone => LogsOf("command") = EveryCommand(models)

\* C3 amended: with --dry-run there is no download and no verify, and one
\* command line per manifest entry whose repo is non-empty, in manifest order;
\* an entry with an empty repo gets the skip warning instead.
C3_DryRun ==
    (args.dry_run /\ ~args.version) =>
        /\ CallsOf("snapshot_download") = <<>>
        /\ CallsOf("verify_repo_checksums") = <<>>
        /\ LoopDone =>
              /\ LogsOf("command") = EveryCommand(NamedEntries(models))
              /\ Len(LogsOf("skip_entry")) = Len(models) - Len(NamedEntries(models))

C3_Witness ==
    /\ args.dry_run /\ ~args.version /\ pc = "done"
    /\ Len(models) >= 2
    /\ models[1].repo # "" /\ models[2].repo # "" /\ models[1] # models[2]

\* the manifest file is a document whose `models` is absent (an empty document
\* included), null, or the empty list
ModelsAbsent == file.kind = "yaml"
                    /\ (file.data.kind = "none"
                        \/ (file.data.kind = "map" /\ file.data.models.kind = "missing"))

ModelsNull == file.kind = "yaml" /\ file.data.kind = "map" /\ file.data.models.kind = "none"

ModelsEmptyList == file.kind = "yaml" /\ file.data.kind = "map"
                       /\ file.data.models.kind = "list" /\ file.data.models.l = <<>>

Loaded == ~args.version /\ pc # "start"

\* C4 as stated: a `models` that is missing, null or [] always ends the process
\* with the 'failed validation' message; no Manifest with empty models comes back.
C4_Original ==
    /\ (Loaded /\ (ModelsAbsent \/ ModelsNull \/ ModelsEmptyList)) =>
           (pc = "exited" /\ exit_msg = "failed validation")
    /\ PastModelsCheck => models # <<>>

\* C4 amended: a `models` that is missing or null ends the process with the
\* 'failed validation' message; `models: []` passes validation and load_manifest
\* returns a Manifest whose models sequence is empty.
C4_EmptyModels ==
    /\ (Loaded /\ (ModelsAbsent \/ ModelsNull)) =>
           (pc = "exited" /\ exit_msg = "failed validation" /\ ExitCode # 0)
    /\ (Loaded /\ ModelsEmptyList) =>
           (pc # "exited" /\ exit_msg = "" /\ models = <<>>)

C4_Witness == Loaded /\ ModelsEmptyList /\ pc = "loaded"
IsCall(i, what) == trace[i].ev = "call" /\ trace[i].what = what

IsLog(i, what) == trace[i].ev = "log" /\ trace[i].what = what

\* the entries up to position n that the loop does not skip
NamedUpTo(n) == {j \in 1..n : models[j].repo # ""}

\* C5: when snapshot_download fails for an entry the run ends there: that
\* download was invoked once and is the last thing the run did (no retry, no
\* verify for the entry, nothing for later entries, no final listing, no diff).
C5_DownloadFailure ==
    \A i \in 1..Len(trace) :
        (IsCall(i, "snapshot_download") /\ trace[i].result # "ok") =>
            /\ i = Len(trace)
            /\ pc = "crashed"
            /\ ExitCode # 0
            /\ ~ENABLED Next
            /\ Len(CallsOf("snapshot_download")) = Cardinality(NamedUpTo(idx))
            /\ Len(CallsOf("verify_repo_checksums")) = Cardinality(NamedUpTo(idx)) - 1
            /\ Len(CallsOf("hf_cache_ls")) = 1
            /\ final_cache = <<>>
            /\ LogsOf("final_header") = <<>>
            /\ LogsOf("diff_header") = <<>>

C5_Witness ==
    /\ pc = "crashed"
    /\ IsCall(Len(trace), "snapshot_download")
    /\ idx = 1
    /\ Len(models) = 2
    /\ models[2].repo # ""

RecoverableVerify == {"repo_not_found", "revision_not_found", "mismatch"}

\* the position of the last record verify_cache writes for the call at i
LastOfVerify(i) == IF trace[i].result = "mismatch" THEN i + 2 ELSE i + 1

\* C6: on repository-not-found, revision-not-found or a mismatch list
\* verify_cache logs an error and returns: it is never what ends the run, and
\* main() goes on to the next entry, or to the final listing after the last one.
C6_VerifyRecoverable ==
    \A i \in 1..Len(trace) :
        (IsCall(i, "verify_repo_checksums") /\ trace[i].result \in RecoverableVerify) =>
            /\ Len(trace) >= LastOfVerify(i)
            /\ IsLog(i + 1, IF trace[i].result = "mismatch" THEN "verify_failed"
                            ELSE trace[i].result)
            /\ trace[i].result = "mismatch" => IsLog(i + 2, "mismatch")
            /\ Len(trace) = LastOfVerify(i) =>
                  /\ pc = (IF idx > Len(models) THEN "final" ELSE "entry")
                  /\ Len(CallsOf("verify_repo_checksums")) = Cardinality(NamedUpTo(idx - 1))
            /\ pc = "crashed" =>
                  /\ Len(trace) > LastOfVerify(i)
                  /\ trace[Len(trace)].ev = "call"
                  /\ trace[Len(trace)].result \notin RecoverableVerify \cup {"ok", "nonzero"}
            /\ pc = "done" => (ExitCode = 0 /\ LogsOf("final_header") # <<>>)

C6_Witness ==
    /\ pc = "done"
    /\ ExitCode = 0
    /\ \E i, j \in 1..Len(trace) :
          /\ i < j
          /\ IsCall(i, "verify_repo_checksums") /\ trace[i].result = "revision_not_found"
          /\ IsCall(j, "verify_repo_checksums") /\ trace[j].result = "mismatch"

\* the listing call at i is the initial capture
IsInitialListing(i) == i = 1

\* the listing captured by the call at i
CapturedBy(i) == IF IsInitialListing(i) THEN initial_cache ELSE final_cache

HeaderOf(i) == IF IsInitialListing(i) THEN "initial_header" ELSE "final_header"

\* C7 as stated: however `hf cache ls` fails, get_cache_listing logs an error
\* and returns an empty sequence, and the failure never aborts the run.
C7_Original ==
    \A i \in 1..Len(trace) :
        (IsCall(i, "hf_cache_ls") /\ trace[i].result # "ok") =>
            /\ Len(trace) > i
            /\ IsLog(i + 1, "cache_ls_failed")
            /\ CapturedBy(i) = <<>>
            /\ ~(pc = "crashed" /\ i = Len(trace))

\* C7 amended: a non-zero exit of `hf cache ls` is never fatal:
\* get_cache_listing logs an error and returns an empty sequence, and the run
\* goes on as after a listing without lines (the entries, the final listing and
\* the diff); a failure to start the subprocess is not caught and ends the run.
C7_ListingFailure ==
    /\ \A i \in 1..Len(trace) :
          (IsCall(i, "hf_cache_ls") /\ trace[i].result = "nonzero") =>
              /\ Len(trace) >= i + 2
              /\ IsLog(i + 1, "cache_ls_failed")
              /\ IsLog(i + 2, HeaderOf(i))
              /\ CapturedBy(i) = <<>>
              /\ Len(trace) = i + 2 =>
                    pc \in (IF IsInitialListing(i) THEN {"entry"} ELSE {"diff", "done"})
              /\ pc = "crashed" =>
                    (trace[Len(trace)].ev = "call" /\ trace[Len(trace)].result # "nonzero")
    /\ \A i \in 1..Len(trace) :
          (IsCall(i, "hf_cache_ls") /\ trace[i].result = "oserror") =>
              (i = Len(trace) /\ pc = "crashed")
    /\ (/\ pc = "done" /\ ~args.version /\ ~args.dry_run /\ models # <<>>
        /\ trace[1].result = "nonzero"
        /\ \A i \in 2..Len(trace) : trace[i].ev = "call" => trace[i].result = "ok") =>
           OperationsAndSkips
               = <<Call("hf_cache_ls", NoData, "nonzero")>>
                     \o NamedEntryOps(models, 1) \o <<ListingCall>>

C7_Witness ==
    /\ pc = "done"
    /\ ~args.dry_run
    /\ trace # <<>>
    /\ IsCall(1, "hf_cache_ls") /\ trace[1].result = "nonzero"
    /\ Len(CallsOf("snapshot_download")) = 2
    /\ Len(CallsOf("verify_repo_checksums")) = 2
    /\ LogsOf("diff_header") # <<>>

\* the colour the claim gives line i of a unified diff u
ClaimedColour(u, i) ==
    IF i <= 2 THEN "plain"
    ELSE IF u[i][1] = "+" THEN "green"
    ELSE IF u[i][1] = "-" THEN "red"
    ELSE "plain"

ClaimedDiffLines(initial, final) ==
    LET u == unified_diff(initial, final)
    IN  [i \in 1..Len(u) |->
            Log("diff_line", [colour |-> ClaimedColour(u, i), line |-> u[i]])]

\* C8: when the two listings differ the diff section has one record per line of
\* the unified diff: lines only in the after listing green, lines only in the
\* before listing red, unchanged lines and the ---/+++/@@ headers uncoloured.
C8_DiffLines ==
    (pc = "done" /\ initial_cache # final_cache) =>
        LogsOf("diff_line") = ClaimedDiffLines(initial_cache, final_cache)

RECURSIVE Flags(_, _)
Flags(flag, pats) ==
    IF pats = <<>> THEN ""
    ELSE " " \o flag \o " " \o pats[1] \o Flags(flag, Tail(pats))

\* a single pattern read as the one-element list of that pattern
PatternsOf(v) ==
    IF v.kind = "list" THEN v.l ELSE IF v.kind = "str" THEN <<v.s>> ELSE <<>>

\* the same, an empty pattern string read as no pattern
PatternsOfNonEmpty(v) ==
    IF v.kind = "list" THEN v.l
    ELSE IF v.kind = "str" /\ v.s # "" THEN <<v.s>>
    ELSE <<>>

\* C9 as stated: 'hf download <repo>', '@<ref>' whenever ref is a string, one
\* '--include <p>' per include pattern, then one '--exclude <p>' per exclude
\* pattern, a single pattern string rendering like the list of that pattern.
C9_Original ==
    pc = "cmd_done" =>
        cmd_out = "hf download " \o cmd_in.repo
                      \o (IF cmd_in.ref.kind = "str" THEN "@" \o cmd_in.ref.s ELSE "")
                      \o Flags("--include", PatternsOf(cmd_in.include))
                      \o Flags("--exclude", PatternsOf(cmd_in.exclude))

\* C9 amended: the same rendering, where '@<ref>' is appended whenever ref is a
\* non-empty string and a non-empty single pattern string renders like the
\* one-element list of that pattern; an empty string given as ref, include or
\* exclude is rendered like an absent one.
C9_Command ==
    pc = "cmd_done" =>
        cmd_out = "hf download " \o cmd_in.repo
                      \o (IF cmd_in.ref.kind = "str" /\ cmd_in.ref.s # ""
                          THEN "@" \o cmd_in.ref.s ELSE "")
                      \o Flags("--include", PatternsOfNonEmpty(cmd_in.include))
                      \o Flags("--exclude", PatternsOfNonEmpty(cmd_in.exclude))

C9_Witness ==
    /\ pc = "cmd_done"
    /\ cmd_in.ref = Str("main")
    /\ cmd_in.include = List(<<"*.gguf", "*.bin">>)
    /\ cmd_in.exclude = Str("*.bin")
    /\ cmd_out = "hf download o/m@main --include *.gguf --include *.bin --exclude *.bin"

\* C10: with --version main() prints the version, one token, and returns with
\* exit code 0: no manifest is loaded and nothing is listed, downloaded or
\* verified, whatever is at the manifest path and whatever --dry-run says.
C10_Version ==
    args.version =>
        /\ pc \in {"start", "done"}
        /\ models = <<>>
        /\ exit_msg = ""
        /\ trace = <<>>
        /\ pc = "done" =>
              /\ ExitCode = 0
              /\ Len(stdout) = 1
              /\ stdout[1] \in {InstalledVersion, "0.0.0"}
        /\ pc = "start" => ENABLED Version

C10_Witness ==
    /\ args.version
    /\ args.dry_run
    /\ pc = "done"
    /\ file.kind = "absent"
    /\ stdout = <<"0.0.0">>
\* the file at the manifest path exists, parses, and breaks the schema
SchemaViolated ==
    file.kind = "yaml" /\ ~FacehuggerManifestValid(OrEmptyMap(file.data))

\* C11: load_manifest ends the process with one of three messages: path not a
\* file -> 'Manifest file not found'; a file that is not parseable structured
\* data -> 'Failed to parse manifest file' (never a validation error); a parsed
\* document that breaks the schema -> 'failed validation'.  In each case the
\* exit is non-zero and no Manifest comes back.
C11_Classified ==
    Loaded =>
        /\ file.kind = "absent" =>
              (pc = "exited" /\ exit_msg = "Manifest file not found")
        /\ file.kind \in {"malformed", "undecodable"} =>
              (pc = "exited" /\ exit_msg = "Failed to parse manifest file")
        /\ SchemaViolated =>
              (pc = "exited" /\ exit_msg = "failed validation")
        /\ (file.kind # "yaml" \/ SchemaViolated) =>
              (ExitCode # 0 /\ models = <<>> /\ trace = <<>>)
\* the run reached the end of main() with the two captures equal
IdenticalListings == pc = "done" /\ initial_cache = final_cache

\* C12: when the before and the after listing are the same sequence of lines
\* (both empty included), the computed diff is empty and the 'Cache changes'
\* section is skipped: no header and no added, removed or context line is logged.
C12_IdenticalListings ==
    IdenticalListings =>
        /\ DiffText(initial_cache, final_cache) = <<>>
        /\ LogsOf("diff_header") = <<>>
        /\ LogsOf("diff_line") = <<>>

\* a run over a non-empty manifest whose two listings are the same non-empty lines
C12_Witness ==
    /\ IdenticalListings
    /\ initial_cache # <<>>
    /\ Len(CallsOf("hf_cache_ls")) = 2
    /\ Len(LogsOf("final_header")) = 1
\* the entries of the document in the manifest file
FileEntries == file.data.models.l

\* the shape of a well-formed entry: a mapping with repo a string, ref absent,
\* null or a string, include and exclude absent, null, a string or a list
WellFormedEntry(e) ==
    /\ e.kind = "map"
    /\ e.repo.kind = "str"
    /\ e.ref.kind \in {"missing", "none", "str"}
    /\ e.include.kind \in {"missing", "none", "str", "list"}
    /\ e.exclude.kind \in {"missing", "none", "str", "list"}

\* the file holds a mapping whose `models` is a list of well-formed entries
WellFormedDocument ==
    /\ file.kind = "yaml"
    /\ file.data.kind = "map"
    /\ file.data.models.kind = "list"
    /\ \A i \in 1..Len(FileEntries) : WellFormedEntry(FileEntries[i])

\* the value the file gives for an optional field, absent read as none
Given(v) == IF v.kind = "missing" THEN None ELSE v

\* C13: for every well-formed manifest document load_manifest returns a
\* Manifest whose models have the length and order of the file's entries, each
\* with the file's repo, include and exclude (absent -> none) and the file's ref,
\* or "main" when ref is omitted.
C13_Loaded ==
    (Loaded /\ WellFormedDocument) =>
        /\ pc \notin {"exited", "load_raised"}
        /\ Len(models) = Len(FileEntries)
        /\ \A i \in 1..Len(FileEntries) :
              /\ models[i].repo = FileEntries[i].repo.s
              /\ models[i].include = Given(FileEntries[i].include)
              /\ models[i].exclude = Given(FileEntries[i].exclude)
              /\ models[i].ref = (IF FileEntries[i].ref.kind = "missing"
                                  THEN Str("main") ELSE FileEntries[i].ref)

\* two different entries were loaded, the first without ref, the second with one
C13_Witness ==
    /\ pc = "loaded"
    /\ WellFormedDocument
    /\ Len(models) = 2
    /\ FileEntries[1].ref.kind = "missing"
    /\ FileEntries[2].ref.kind = "str"
    /\ FileEntries[1].include.kind = "list"
    /\ FileEntries[2].exclude.kind = "missing"
    /\ models[1].repo # models[2].repo
    /\ models[1].ref = Str("main")

====
